---- MODULE Spec2Model ----
(***************************************************************************)
(* Model of src/app/main.py: the FastAPI handlers over the two MongoDB     *)
(* collections (songs, reviews) and the search aggregator over the         *)
(* Last.fm / MusicBrainz / Cover Art Archive services.                     *)
(*                                                                         *)
(* Every handler is a coroutine: it runs without interruption between two  *)
(* awaits, and any other request may run at an await.  One action of the   *)
(* model is one such uninterrupted piece: the database call that the       *)
(* await completes, followed by the synchronous code up to the next await  *)
(* (or up to the return / raise).  The arrival of a request is one step    *)
(* with its first database call: nothing of the state is read before it.   *)
(*                                                                         *)
(* A collection is the set of its documents, each with a unique _id.  The  *)
(* order in which an unsorted query meets the documents (MongoDB's natural *)
(* order) is not fixed by the code, so find_one / delete_one / update_one  *)
(* pick any matching document.                                             *)
(***************************************************************************)
EXTENDS Integers, Sequences, FiniteSets, TLC

\* ------------------------------------------------------------------ bounds
\* Number of requests that can be in flight at the same time.
NumClients == 2
\* Number of documents ever inserted (ObjectIds 1..MaxId).
MaxId == 3
\* ObjectIds 1..MaxReviewIds of the runs that list several reviews.
MaxReviewIds == 4
\* Readings of the wall clock: 0..MaxTime.
MaxTime == 1
\* Tracks in one answer of Last.fm (the query asks for at most 8).
MaxTracks == 3

Clients == 1..NumClients

\* ------------------------------------------------------------ value domains
None == "None"
Users == {"u1", "u2"}
SongNames == {"s1", "s2"}
Artists == {"a1", "a2"}
Titles == {"t1"}
Scores == {1, 2}
Texts == {"x", "y"}

\* Song (pydantic model): artist and title are Optional, default None.  The
\* fields image, listeners and url are stored and returned untouched and no
\* handler reads them; they are left out of the documents.
SongInputs ==
    [song : SongNames, username : Users,
     artist : {None, "a1"}, title : {None, "t1"}]

\* Review (pydantic model): artist and title are required strings.
ReviewInputs ==
    [song_name : SongNames, artist : Artists, title : Titles,
     username : Users, score : Scores, review_text : Texts]

\* ReviewUpdate (pydantic model).
ReviewUpdateInputs == [score : Scores, review_text : Texts]

VARIABLES
    collection,          \* db["songs"]: set of song documents
    reviews_collection,  \* db["reviews"]: set of review documents
    nextId,              \* next ObjectId the store hands out
    now,                 \* current reading of datetime.now()
    pc,                  \* pc[c]: where the request of client c stands
    req,                 \* req[c]: the request in flight (handler and arguments)
    loc,                 \* loc[c]: the handler's local variables
    resp,                \* resp[c]: the response of the handler that has ended
    search,              \* search_songs: its position and local variables
    mb_calls,            \* the calls of get_musicbrainz_image so far, in order
    mb_answer,           \* the service answer that ended the call just returned
    resolving,           \* calls of get_musicbrainz_image that have not returned
    search_resp          \* the response of search_songs

storeVars == <<collection, reviews_collection, nextId, now, pc, req, loc, resp>>
searchVars == <<search, mb_calls, mb_answer, resolving, search_resp>>
vars == <<collection, reviews_collection, nextId, now, pc, req, loc, resp,
          search, mb_calls, mb_answer, resolving, search_resp>>

NoReq == [op |-> "none"]
NoLoc == [at |-> "none"]
NoResp == [op |-> "none", status |-> 0]
NoAnswer == [step |-> "none", kind |-> "none"]
SearchIdle ==
    [pc |-> "idle", data |-> [kind |-> "none"], track_list |-> <<>>, i |-> 0,
     tracks |-> <<>>, cover_url |-> None, image_url |-> None]

Init ==
    /\ collection = {}
    /\ reviews_collection = {}
    /\ nextId = 1
    /\ now = 0
    /\ pc = [c \in Clients |-> "idle"]
    /\ req = [c \in Clients |-> NoReq]
    /\ loc = [c \in Clients |-> NoLoc]
    /\ resp = [c \in Clients |-> NoResp]
    /\ search = SearchIdle
    /\ mb_calls = <<>>
    /\ mb_answer = NoAnswer
    /\ resolving = 0
    /\ search_resp = NoResp

\* ----------------------------------------------------------------- queries
SongsOf(song, username) ==
    {d \in collection : d.song = song /\ d.username = username}

SongsOfUser(username) == {d \in collection : d.username = username}

ReviewsOf(song_name, username) ==
    {d \in reviews_collection : d.song_name = song_name /\ d.username = username}

ReviewsOfUser(username) == {d \in reviews_collection : d.username = username}

ReviewsOfSong(song_name) == {d \in reviews_collection : d.song_name = song_name}

\* Handlers that have reserved an ObjectId they have not used yet.
Inserting ==
    {c \in Clients : pc[c] \in {"add_song_insert", "add_review_find", "add_review_write"}}

\* An ObjectId of 1..ids is left for one more handler.
CanInsert(ids) == nextId + Cardinality(Inserting) <= ids

\* The handlers of the two stores leave the variables of the search alone
\* (Respond, Await, Return and Tick say so for all of them).

\* The handler of client c ends: r is the status and the body it sends; the
\* response is kept with the handler's name and the (username, song) it was
\* called for until the client has received it.
Respond(c, r, request) ==
    /\ pc' = [pc EXCEPT ![c] = "done"]
    /\ req' = [req EXCEPT ![c] = NoReq]
    /\ loc' = [loc EXCEPT ![c] = NoLoc]
    /\ resp' = [resp EXCEPT ![c] = [op |-> request.op, username |-> request.username,
                                    song_name |-> request.song_name] @@ r]
    /\ UNCHANGED searchVars

\* Client c receives the response; it may send its next request.
Return(c) ==
    /\ pc[c] = "done"
    /\ pc' = [pc EXCEPT ![c] = "idle"]
    /\ resp' = [resp EXCEPT ![c] = NoResp]
    /\ UNCHANGED <<collection, reviews_collection, nextId, now, req, loc>>
    /\ UNCHANGED searchVars

\* The handler of client c is suspended at its next await, label l, locals v.
Await(c, l, v, request) ==
    /\ pc' = [pc EXCEPT ![c] = l]
    /\ req' = [req EXCEPT ![c] = request]
    /\ loc' = [loc EXCEPT ![c] = v]
    /\ UNCHANGED resp
    /\ UNCHANGED searchVars

\* ------------------------------------------------------ POST /api/songs
\* AddSongFind without the 400 for a stored pair.
AddSongFind_NoConflict(c, song) ==
    /\ pc[c] = "idle"
    /\ Await(c, "add_song_insert", NoLoc,
             [op |-> "add_song", username |-> song.username,
              song_name |-> song.song, song |-> song])
    /\ UNCHANGED <<collection, reviews_collection, nextId, now>>

\* existing_song = find_one({"song", "username"}); 400 if there is one.
AddSongFind(c, song) ==
    /\ pc[c] = "idle"
    /\ LET request == [op |-> "add_song", username |-> song.username,
                       song_name |-> song.song, song |-> song]
       IN  IF SongsOf(song.song, song.username) # {}
             THEN Respond(c, [status |-> 400], request)
             ELSE Await(c, "add_song_insert", NoLoc, request)
    /\ UNCHANGED <<collection, reviews_collection, nextId, now>>

\* insert_one(song.dict()); the response carries the inserted id.
AddSongInsert(c) ==
    /\ pc[c] = "add_song_insert"
    /\ LET song == req[c].song
           doc == [_id |-> nextId, song |-> song.song, username |-> song.username,
                   artist |-> song.artist, title |-> song.title]
       IN  /\ collection' = collection \cup {doc}
           /\ nextId' = nextId + 1
           /\ Respond(c, [status |-> 200, id |-> nextId], req[c])
    /\ UNCHANGED <<reviews_collection, now>>

\* ------------------------------------- DELETE /api/songs/{username}/{song_name}
\* DeleteSongOne that removes a review of the pair before its 404.
DeleteSongOne_Cascade(c, username, song_name) ==
    /\ pc[c] = "idle"
    /\ LET request == [op |-> "delete_song_by_name", username |-> username,
                       song_name |-> song_name]
       IN  IF SongsOf(song_name, username) = {}
             THEN /\ Respond(c, [status |-> 404], request)
                  /\ reviews_collection' = reviews_collection \ ReviewsOf(song_name, username)
                  /\ UNCHANGED collection
             ELSE \E d \in SongsOf(song_name, username) :
                      /\ collection' = collection \ {d}
                      /\ UNCHANGED reviews_collection
                      /\ Await(c, "delete_song_review", NoLoc, request)
    /\ UNCHANGED <<nextId, now>>

\* delete_one on the songs; 404 if nothing was deleted.
DeleteSongOne(c, username, song_name) ==
    /\ pc[c] = "idle"
    /\ LET request == [op |-> "delete_song_by_name", username |-> username,
                       song_name |-> song_name]
       IN  IF SongsOf(song_name, username) = {}
             THEN /\ Respond(c, [status |-> 404], request)
                  /\ UNCHANGED collection
             ELSE \E d \in SongsOf(song_name, username) :
                      /\ collection' = collection \ {d}
                      /\ Await(c, "delete_song_review", NoLoc, request)
    /\ UNCHANGED <<reviews_collection, nextId, now>>

\* delete_one on the reviews (the cascade), then the response.
DeleteSongReview(c) ==
    /\ pc[c] = "delete_song_review"
    /\ LET matching == ReviewsOf(req[c].song_name, req[c].username)
       IN  IF matching = {}
             THEN UNCHANGED reviews_collection
             ELSE \E d \in matching : reviews_collection' = reviews_collection \ {d}
    /\ Respond(c, [status |-> 200], req[c])
    /\ UNCHANGED <<collection, nextId, now>>

\* ------------------------------------------------ DELETE /api/songs/{username}
\* ClearSongs with a deleted_count that adds the reviews to the songs.
ClearSongs_CountsReviews(c, username) ==
    /\ pc[c] = "idle"
    /\ collection' = collection \ SongsOfUser(username)
    /\ Await(c, "clear_reviews",
             [deleted_count |-> Cardinality(SongsOfUser(username))
                                  + Cardinality(ReviewsOfUser(username))],
             [op |-> "clear_all_user_songs", username |-> username,
              song_name |-> None])
    /\ UNCHANGED <<reviews_collection, nextId, now>>

\* result = delete_many on the songs of the user.
ClearSongs(c, username) ==
    /\ pc[c] = "idle"
    /\ collection' = collection \ SongsOfUser(username)
    /\ Await(c, "clear_reviews",
             [deleted_count |-> Cardinality(SongsOfUser(username))],
             [op |-> "clear_all_user_songs", username |-> username,
              song_name |-> None])
    /\ UNCHANGED <<reviews_collection, nextId, now>>

\* ClearReviews that deletes the reviews of every user.
ClearReviews_AllUsers(c) ==
    /\ pc[c] = "clear_reviews"
    /\ reviews_collection' = {}
    /\ Respond(c, [status |-> 200, deleted_count |-> loc[c].deleted_count], req[c])
    /\ UNCHANGED <<collection, nextId, now>>

\* delete_many on the reviews of the user; the response carries
\* result.deleted_count of the songs.
ClearReviews(c) ==
    /\ pc[c] = "clear_reviews"
    /\ reviews_collection' = reviews_collection \ ReviewsOfUser(req[c].username)
    /\ Respond(c, [status |-> 200, deleted_count |-> loc[c].deleted_count], req[c])
    /\ UNCHANGED <<collection, nextId, now>>

\* ------------------------------------------------------ POST /api/reviews
\* AddReviewFindSong without the 404 for a pair with no song.
AddReviewFindSong_NoCheck(c, review) ==
    /\ pc[c] = "idle"
    /\ Await(c, "add_review_find", NoLoc,
             [op |-> "add_review", username |-> review.username,
              song_name |-> review.song_name, review |-> review])
    /\ UNCHANGED <<collection, reviews_collection, nextId, now>>

\* song_exists = find_one on the songs; 404 if there is none.
AddReviewFindSong(c, review) ==
    /\ pc[c] = "idle"
    /\ LET request == [op |-> "add_review", username |-> review.username,
                       song_name |-> review.song_name, review |-> review]
       IN  IF SongsOf(review.song_name, review.username) = {}
             THEN Respond(c, [status |-> 404], request)
             ELSE Await(c, "add_review_find", NoLoc, request)
    /\ UNCHANGED <<collection, reviews_collection, nextId, now>>

\* existing_review = find_one on the reviews (its _id, 0 for None), then
\* review_dict with created_at and updated_at read from the clock; the
\* clock does not go back between the reads.
AddReviewFindReview(c) ==
    /\ pc[c] = "add_review_find"
    /\ LET matching == ReviewsOf(req[c].song_name, req[c].username)
           found == IF matching = {} THEN {0} ELSE {d._id : d \in matching}
       IN  \E existing \in found, t \in now..MaxTime :
               /\ now' = t
               /\ Await(c, "add_review_write",
                        [existing |-> existing, created_at |-> now, updated_at |-> t],
                        req[c])
    /\ UNCHANGED <<collection, reviews_collection, nextId>>

\* review.dict() with the two timestamps.
ReviewDict(review, created_at, updated_at) ==
    [song_name |-> review.song_name, artist |-> review.artist,
     title |-> review.title, username |-> review.username,
     score |-> review.score, review_text |-> review.review_text,
     created_at |-> created_at, updated_at |-> updated_at]

\* replace_one({"_id": existing}, review_dict): the document with that _id,
\* if it is still stored, becomes review_dict and keeps its _id.
ReplaceOne(id, review_dict) ==
    {IF d._id = id THEN [_id |-> id] @@ review_dict ELSE d : d \in reviews_collection}

\* AddReviewWrite that inserts also when a review was found.
AddReviewWrite_AlwaysInsert(c) ==
    /\ pc[c] = "add_review_write"
    /\ reviews_collection' =
           reviews_collection \cup
             {[_id |-> nextId] @@
                ReviewDict(req[c].review, loc[c].created_at, loc[c].updated_at)}
    /\ nextId' = nextId + 1
    /\ Respond(c, [status |-> 200,
                   message |-> IF loc[c].existing # 0 THEN "updated" ELSE "added"],
               req[c])
    /\ UNCHANGED <<collection, now>>

\* AddReviewWrite whose replacement keeps the created_at of the review it
\* replaces.
AddReviewWrite_KeepsCreatedAt(c) ==
    /\ pc[c] = "add_review_write"
    /\ LET review_dict == ReviewDict(req[c].review, loc[c].created_at, loc[c].updated_at)
       IN  IF loc[c].existing # 0
             THEN /\ reviews_collection' =
                         {IF d._id = loc[c].existing
                            THEN [_id |-> d._id] @@ [review_dict EXCEPT !.created_at = d.created_at]
                            ELSE d : d \in reviews_collection}
                  /\ UNCHANGED nextId
                  /\ Respond(c, [status |-> 200, message |-> "updated"], req[c])
             ELSE /\ reviews_collection' =
                         reviews_collection \cup {[_id |-> nextId] @@ review_dict}
                  /\ nextId' = nextId + 1
                  /\ Respond(c, [status |-> 200, message |-> "added"], req[c])
    /\ UNCHANGED <<collection, now>>

\* replace_one if a review was found, insert_one otherwise.
AddReviewWrite(c) ==
    /\ pc[c] = "add_review_write"
    /\ LET review_dict == ReviewDict(req[c].review, loc[c].created_at, loc[c].updated_at)
       IN  IF loc[c].existing # 0
             THEN /\ reviews_collection' = ReplaceOne(loc[c].existing, review_dict)
                  /\ UNCHANGED nextId
                  /\ Respond(c, [status |-> 200, message |-> "updated"], req[c])
             ELSE /\ reviews_collection' =
                         reviews_collection \cup {[_id |-> nextId] @@ review_dict}
                  /\ nextId' = nextId + 1
                  /\ Respond(c, [status |-> 200, message |-> "added"], req[c])
    /\ UNCHANGED <<collection, now>>

\* ------------------------------- PUT /api/reviews/{username}/{song_name}
\* update_one with $set of score, review_text, updated_at; modified_count
\* counts a document only if the $set changed it; 404 if it is 0.
UpdateReview(c, username, song_name, review_update) ==
    /\ pc[c] = "idle"
    /\ LET request == [op |-> "update_review", username |-> username,
                       song_name |-> song_name]
           matching == ReviewsOf(song_name, username)
       IN  IF matching = {}
             THEN /\ UNCHANGED reviews_collection
                  /\ Respond(c, [status |-> 404], request)
             ELSE \E d \in matching :
                    LET updated == [d EXCEPT !.score = review_update.score,
                                             !.review_text = review_update.review_text,
                                             !.updated_at = now]
                        modified_count == IF updated = d THEN 0 ELSE 1
                    IN  /\ reviews_collection' = (reviews_collection \ {d}) \cup {updated}
                        /\ Respond(c, [status |-> IF modified_count = 0 THEN 404 ELSE 200],
                                   request)
    /\ UNCHANGED <<collection, nextId, now>>

\* ---------------------------- DELETE /api/reviews/{username}/{song_name}
\* delete_one on the reviews; 404 if nothing was deleted.
DeleteReview(c, username, song_name) ==
    /\ pc[c] = "idle"
    /\ LET request == [op |-> "delete_review", username |-> username,
                       song_name |-> song_name]
           matching == ReviewsOf(song_name, username)
       IN  IF matching = {}
             THEN /\ UNCHANGED reviews_collection
                  /\ Respond(c, [status |-> 404], request)
             ELSE \E d \in matching :
                      /\ reviews_collection' = reviews_collection \ {d}
                      /\ Respond(c, [status |-> 200], request)
    /\ UNCHANGED <<collection, nextId, now>>

\* All orders in which a cursor can deliver the documents of S.
Orders(S) ==
    {f \in [1..Cardinality(S) -> S] : \A i, j \in 1..Cardinality(S) : i # j => f[i] # f[j]}

\* ------------------------------------------------ GET /api/songs/{username}
\* The cursor of find({"username"}) delivers the songs of the user.
GetUserSongsFind(c, username) ==
    /\ pc[c] = "idle"
    /\ LET request == [op |-> "get_user_songs", username |-> username,
                       song_name |-> None]
       IN  IF SongsOfUser(username) = {}
             THEN Respond(c, [status |-> 200, songs |-> <<>>], request)
             ELSE \E docs \in Orders(SongsOfUser(username)) :
                      Await(c, "get_user_songs_review",
                            [cursor |-> docs, songs |-> <<>>], request)
    /\ UNCHANGED <<collection, reviews_collection, nextId, now>>

\* The reviews find_one({"username", "song_name", "artist", "title"}) can
\* return for a song document: the query takes artist and title from the
\* song document, None (null) where the song was saved without them.
ReviewsForSongDoc(username, song_doc) ==
    {r \in reviews_collection :
        /\ r.username = username
        /\ r.song_name = song_doc.song
        /\ r.artist = song_doc.artist
        /\ r.title = song_doc.title}

\* song_doc as it is returned: without _id, with has_review and, if a review
\* was found, its score and text.
SongOut(song_doc, found, review) ==
    LET plain == [song |-> song_doc.song, username |-> song_doc.username,
                  artist |-> song_doc.artist, title |-> song_doc.title]
    IN  IF found
          THEN plain @@ [user_score |-> review.score,
                         user_review |-> review.review_text, has_review |-> TRUE]
          ELSE plain @@ [has_review |-> FALSE]

\* One turn of the loop: find_one on the reviews for the next song document,
\* append the enriched document; after the last one, the response.
GetUserSongsReview(c) ==
    /\ pc[c] = "get_user_songs_review"
    /\ LET song_doc == Head(loc[c].cursor)
           rest == Tail(loc[c].cursor)
           matching == ReviewsForSongDoc(req[c].username, song_doc)
           outs == IF matching = {}
                     THEN {SongOut(song_doc, FALSE, song_doc)}
                     ELSE {SongOut(song_doc, TRUE, r) : r \in matching}
       IN  \E out \in outs :
             LET songs == Append(loc[c].songs, out)
             IN  IF rest = <<>>
                   THEN Respond(c, [status |-> 200, songs |-> songs], req[c])
                   ELSE Await(c, "get_user_songs_review",
                              [cursor |-> rest, songs |-> songs], req[c])
    /\ UNCHANGED <<collection, reviews_collection, nextId, now>>

\* -------------------------- GET /api/reviews, GET /api/reviews/{song_name}
\* datetime.isoformat(): the text of the timestamp.
IsoFormat(t) == <<"iso", t>>

\* review_doc as it is returned: without _id, the timestamps as text.
ReviewOut(d) ==
    [song_name |-> d.song_name, artist |-> d.artist, title |-> d.title,
     username |-> d.username, score |-> d.score, review_text |-> d.review_text,
     created_at |-> IsoFormat(d.created_at), updated_at |-> IsoFormat(d.updated_at)]

\* A cursor that is not sorted.
SortedByCreatedDesc_Unsorted(S) == Orders(S)

\* sort("created_at", -1): newest first; documents with equal created_at
\* come in any order.
SortedByCreatedDesc(S) ==
    {f \in Orders(S) :
        \A i, j \in 1..Cardinality(S) : i < j => f[i].created_at >= f[j].created_at}

\* The cursor of find(query).sort("created_at", -1) over the documents S.
ListReviews(c, S, request) ==
    /\ pc[c] = "idle"
    /\ \E docs \in SortedByCreatedDesc(S) :
           Respond(c, [status |-> 200,
                       reviews |-> [i \in 1..Len(docs) |-> ReviewOut(docs[i])]],
                   request)
    /\ UNCHANGED <<collection, reviews_collection, nextId, now>>

GetAllReviews(c) ==
    ListReviews(c, reviews_collection,
                [op |-> "get_all_reviews", username |-> None, song_name |-> None])

GetSongReviews(c, song_name) ==
    ListReviews(c, ReviewsOfSong(song_name),
                [op |-> "get_song_reviews", username |-> None, song_name |-> song_name])

\* The wall clock advances.
Tick ==
    /\ now < MaxTime
    /\ now' = now + 1
    /\ UNCHANGED <<collection, reviews_collection, nextId, pc, req, loc, resp>>
    /\ UNCHANGED searchVars

\* ======================================================= POST /api/search
\* A key a dict of the Last.fm answer does not hold.
Absent == "Absent"

\* The track dicts of a Last.fm answer: artist, name, listeners and url,
\* each present or not.
TrackInputs ==
    {[artist |-> "a1", name |-> "n1", listeners |-> "9", url |-> "l1"],
     [artist |-> "a1", name |-> "n1", listeners |-> Absent, url |-> Absent],
     [artist |-> "a1", name |-> "n2", listeners |-> "7", url |-> "l2"],
     [artist |-> Absent, name |-> "n1", listeners |-> "9", url |-> "l1"],
     [artist |-> Absent, name |-> Absent, listeners |-> Absent, url |-> "l1"]}

TrackLists == UNION {[1..n -> TrackInputs] : n \in 0..MaxTracks}

\* The answers of Last.fm: no connection, a status other than 200, a body
\* that is not JSON, or data whose results.trackmatches.track is missing, one
\* track dict, or a list of track dicts.
LastfmResponses ==
    {[kind |-> "connect_error"], [kind |-> "non200"], [kind |-> "invalid_json"],
     [kind |-> "ok", shape |-> "none"]}
    \cup {[kind |-> "ok", shape |-> "dict", track |-> t] : t \in TrackInputs}
    \cup {[kind |-> "ok", shape |-> "list", tracks |-> l] : l \in TrackLists}

\* The answers of the MusicBrainz recording search: an exception, a status
\* other than 200, or data with no recordings, no releases in the first
\* recording, no release-group in its first release, or a release-group id.
MbResponses ==
    {[kind |-> "error"], [kind |-> "non200"], [kind |-> "no_recordings"],
     [kind |-> "no_releases"], [kind |-> "no_release_group"],
     [kind |-> "ok", release_group_id |-> "g1"]}

\* The answers of the Cover Art Archive to the HEAD probe: an exception, a
\* status other than 200, or 200 at the final URL.
HeadResponses ==
    {[kind |-> "error"], [kind |-> "non200"],
     [kind |-> "ok", url |-> "i1"], [kind |-> "ok", url |-> "i2"]}

\* dict.get(key, default)
Get(value, default) == IF value = Absent THEN default ELSE value

ArtistName(track) == Get(track.artist, "Unknown Artist")
TrackTitle(track) == Get(track.name, "Unknown Track")

\* TrackList that takes a single track dict for no track at all.
TrackList_NoWrap(data) ==
    IF data.shape = "list" THEN data.tracks ELSE <<>>

\* track_list after "if isinstance(track_list, dict): track_list = [track_list]".
TrackList(data) ==
    IF data.shape = "dict" THEN <<data.track>>
    ELSE IF data.shape = "list" THEN data.tracks
    ELSE <<>>

\* track_data of the loop.
TrackData(track, image_url) ==
    [name |-> <<ArtistName(track), " - ", TrackTitle(track)>>,
     artist |-> ArtistName(track), title |-> TrackTitle(track),
     image |-> image_url,
     listeners |-> Get(track.listeners, None), url |-> Get(track.url, None)]

\* search_songs ends with HTTPException(500, detail); detail is the sequence
\* of the parts of the message.  data keeps what Last.fm answered.
SearchFail(response, detail) ==
    /\ search' = [search EXCEPT !.pc = "done", !.data = response]
    /\ search_resp' = [op |-> "search_songs", status |-> 500, detail |-> detail]
    /\ UNCHANGED <<mb_calls, mb_answer, resolving>>

\* search_songs returns {"songs": tracks}.
SearchReturn(locals, tracks) ==
    /\ search' = [locals EXCEPT !.pc = "done", !.tracks = tracks]
    /\ search_resp' = [op |-> "search_songs", status |-> 200, songs |-> tracks]
    /\ mb_answer' = NoAnswer
    /\ UNCHANGED <<mb_calls, resolving>>

\* The loop calls get_musicbrainz_image(artist_name, track_title) for track i
\* of track_list; the call runs up to its await of the recording search.
CallResolver(locals, i, tracks) ==
    /\ search' = [locals EXCEPT !.pc = "mb_recording", !.i = i, !.tracks = tracks,
                                !.cover_url = None, !.image_url = None]
    /\ mb_calls' = Append(mb_calls, <<ArtistName(locals.track_list[i]),
                                      TrackTitle(locals.track_list[i])>>)
    /\ resolving' = resolving + 1
    /\ mb_answer' = NoAnswer
    /\ UNCHANGED search_resp

\* The answer of Last.fm arrives.  A failed connection is the
\* httpx.RequestError branch; the HTTPException raised for a status other
\* than 200 and the error of response.json() are raised inside the try and
\* reach "except Exception", which wraps str(e) in "Search error: ".
SearchLastfm(response) ==
    /\ search.pc = "idle"
    /\ IF response.kind = "connect_error"
         THEN SearchFail(response, <<"Failed to connect to Last.fm API">>)
       ELSE IF response.kind = "non200"
         THEN SearchFail(response, <<"Search error: ",
                                     "str(HTTPException(500, 'Last.fm API error'))">>)
       ELSE IF response.kind = "invalid_json"
         THEN SearchFail(response, <<"Search error: ", "str(JSONDecodeError)">>)
       ELSE LET locals == [search EXCEPT !.track_list = TrackList(response),
                                         !.data = response]
            IN  IF locals.track_list = <<>>
                  THEN SearchReturn(locals, <<>>)
                  ELSE CallResolver(locals, 1, <<>>)
    /\ UNCHANGED storeVars

\* get_musicbrainz_image returns image_url to the loop, which awaits the
\* sleep.  mb_answer keeps the answer of the service that ended the call.
ResolverReturns(step, response, image_url) ==
    /\ search' = [search EXCEPT !.pc = "sleep", !.image_url = image_url]
    /\ mb_answer' = [step |-> step] @@ response
    /\ resolving' = resolving - 1
    /\ UNCHANGED <<mb_calls, search_resp>>

\* MbRecording whose failures are not caught: they end search_songs with 500.
MbRecording_Propagates(response) ==
    /\ search.pc = "mb_recording"
    /\ IF response.kind = "ok"
         THEN /\ search' = [search EXCEPT
                               !.pc = "cover_head",
                               !.cover_url = <<"release-group", response.release_group_id, "front">>]
              /\ UNCHANGED <<mb_calls, mb_answer, resolving, search_resp>>
         ELSE /\ search' = [search EXCEPT !.pc = "done"]
              /\ search_resp' = [op |-> "search_songs", status |-> 500,
                                 detail |-> <<"Search error: ", response.kind>>]
              /\ resolving' = resolving - 1
              /\ UNCHANGED <<mb_calls, mb_answer>>
    /\ UNCHANGED storeVars

\* The answer of the recording search arrives: with a release-group id the
\* resolver goes on to the HEAD probe of its front cover, otherwise (the
\* exceptions are caught) it returns None.
MbRecording(response) ==
    /\ search.pc = "mb_recording"
    /\ IF response.kind = "ok"
         THEN /\ search' = [search EXCEPT
                               !.pc = "cover_head",
                               !.cover_url = <<"release-group", response.release_group_id, "front">>]
              /\ UNCHANGED <<mb_calls, mb_answer, resolving, search_resp>>
         ELSE ResolverReturns("recording", response, None)
    /\ UNCHANGED storeVars

\* The answer of the HEAD probe arrives: str(cover_response.url) at 200,
\* None otherwise.
CoverHead(response) ==
    /\ search.pc = "cover_head"
    /\ ResolverReturns("probe", response,
                        IF response.kind = "ok" THEN response.url ELSE None)
    /\ UNCHANGED storeVars

\* SleepDone that leaves out a track whose artist and title are already in
\* tracks.
SleepDone_Dedup ==
    /\ search.pc = "sleep"
    /\ LET track == search.track_list[search.i]
           seen == \E k \in 1..Len(search.tracks) :
                      /\ search.tracks[k].artist = ArtistName(track)
                      /\ search.tracks[k].title = TrackTitle(track)
           tracks == IF seen THEN search.tracks
                     ELSE Append(search.tracks, TrackData(track, search.image_url))
       IN  IF search.i = Len(search.track_list)
             THEN SearchReturn(search, tracks)
             ELSE CallResolver(search, search.i + 1, tracks)
    /\ UNCHANGED storeVars

\* asyncio.sleep(0.1) is over: track_data is appended; the loop calls the
\* resolver for the next track, or search_songs returns after the last one.
SleepDone ==
    /\ search.pc = "sleep"
    /\ LET tracks == Append(search.tracks,
                            TrackData(search.track_list[search.i], search.image_url))
       IN  IF search.i = Len(search.track_list)
             THEN SearchReturn(search, tracks)
             ELSE CallResolver(search, search.i + 1, tracks)
    /\ UNCHANGED storeVars

SearchNext ==
    \/ \E response \in LastfmResponses : SearchLastfm(response)
    \/ \E response \in MbResponses : MbRecording(response)
    \/ \E response \in HeadResponses : CoverHead(response)
    \/ SleepDone

SearchSpec == Init /\ [][SearchNext]_vars

\* A request that goes on to insert a document starts only while an
\* ObjectId of 1..in.ids is left for it.
Reserves(c, in) ==
    pc'[c] \in {"add_song_insert", "add_review_find"} => CanInsert(in.ids)

\* One step of the request of client c; in gives the sets the arguments of
\* a new request are drawn from and the number of ObjectIds.
Step(c, in) ==
    \/ \E song \in in.songs : AddSongFind(c, song) /\ Reserves(c, in)
    \/ AddSongInsert(c)
    \/ \E u \in in.users, s \in in.song_names : DeleteSongOne(c, u, s)
    \/ DeleteSongReview(c)
    \/ \E u \in in.users : ClearSongs(c, u)
    \/ ClearReviews(c)
    \/ \E review \in in.reviews : AddReviewFindSong(c, review) /\ Reserves(c, in)
    \/ AddReviewFindReview(c)
    \/ AddReviewWrite(c)
    \/ \E u \in in.users, s \in in.song_names, upd \in in.updates :
           UpdateReview(c, u, s, upd)
    \/ \E u \in in.users, s \in in.song_names : DeleteReview(c, u, s)
    \/ \E u \in in.users : GetUserSongsFind(c, u)
    \/ GetUserSongsReview(c)
    \/ GetAllReviews(c)
    \/ \E s \in in.song_names : GetSongReviews(c, s)
    \/ Return(c)

\* Requests of all clients interleave at their awaits; the requests are for
\* the songs of one user.
ConcInputs ==
    [users |-> {"u1"}, song_names |-> SongNames,
     songs |-> {x \in SongInputs : x.username = "u1" /\ x.artist = "a1" /\ x.title = "t1"},
     reviews |-> {x \in ReviewInputs :
                    x.username = "u1" /\ x.artist = "a1" /\ x.review_text = "x"},
     updates |-> {x \in ReviewUpdateInputs : x.review_text = "y"},
     ids |-> MaxId]

Next ==
    \/ \E c \in Clients : Step(c, ConcInputs)
    \/ Tick

Spec == Init /\ [][Next]_vars

\* Requests run one after another: a request starts when the one before it
\* has been answered.
SeqInputs ==
    [users |-> Users, song_names |-> SongNames,
     songs |-> {x \in SongInputs : x.artist = "a1" /\ x.title = "t1"},
     reviews |-> {x \in ReviewInputs : x.artist = "a1"},
     updates |-> ReviewUpdateInputs,
     ids |-> MaxId]

SeqNext ==
    \/ Step(1, SeqInputs)
    \/ Tick

SeqSpec == Init /\ [][SeqNext]_vars

\* Requests run one after another, the songs saved with and without artist
\* and title, the reviews given with either artist.
ListInputs ==
    [users |-> Users, song_names |-> SongNames,
     songs |-> SongInputs,
     reviews |-> {x \in ReviewInputs : x.review_text = "x"},
     updates |-> {x \in ReviewUpdateInputs : x.review_text = "y"},
     ids |-> MaxId]

ListNext ==
    \/ Step(1, ListInputs)
    \/ Tick

ListSpec == Init /\ [][ListNext]_vars

\* Requests run one after another, with ObjectIds for two songs and a
\* review of each; the songs are s1 of either user and s2 of u1.
ReviewSpecInputs ==
    [users |-> Users, song_names |-> SongNames,
     songs |-> {x \in SongInputs :
                  /\ x.artist = "a1" /\ x.title = "t1"
                  /\ x.song = "s1" \/ x.username = "u1"},
     reviews |-> {x \in ReviewInputs :
                    /\ x.artist = "a1" /\ x.title = "t1"
                    /\ x.score = 1 /\ x.review_text = "x"
                    /\ x.song_name = "s1" \/ x.username = "u1"},
     updates |-> {x \in ReviewUpdateInputs : x.score = 2 /\ x.review_text = "x"},
     ids |-> MaxReviewIds]

\* add_review of client c for a pair that has a review: with requests one
\* after another it goes on to replace_one and needs no ObjectId.
AddReviewOfReviewed(c, in) ==
    \E review \in in.reviews :
        /\ ReviewsOf(review.song_name, review.username) # {}
        /\ AddReviewFindSong(c, review)

ReviewNext ==
    \/ Step(1, ReviewSpecInputs)
    \/ AddReviewOfReviewed(1, ReviewSpecInputs)
    \/ Tick

ReviewSpec == Init /\ [][ReviewNext]_vars

\* The handler of client c stops at the await between its delete on the
\* songs and its delete on the reviews (the process dies, the request is
\* cancelled) and never runs the second delete.
HandlerStops(c) ==
    /\ pc[c] \in {"delete_song_review", "clear_reviews"}
    /\ pc' = [pc EXCEPT ![c] = "idle"]
    /\ req' = [req EXCEPT ![c] = NoReq]
    /\ loc' = [loc EXCEPT ![c] = NoLoc]
    /\ UNCHANGED <<collection, reviews_collection, nextId, now, resp>>
    /\ UNCHANGED searchVars

\* Requests run one after another; a delete handler may stop between its
\* two steps.
CrashInputs ==
    [users |-> Users, song_names |-> SongNames,
     songs |-> {x \in SongInputs : x.artist = "a1" /\ x.title = "t1"},
     reviews |-> {x \in ReviewInputs :
                    x.artist = "a1" /\ x.title = "t1" /\ x.review_text = "x"},
     updates |-> {x \in ReviewUpdateInputs : x.review_text = "x"},
     ids |-> MaxId]

CrashNext ==
    \/ Step(1, CrashInputs)
    \/ HandlerStops(1)
    \/ Tick

CrashSpec == Init /\ [][CrashNext]_vars

\* Store requests run one after another, for the songs and reviews of two
\* users, while a search runs.
FrameInputs ==
    [users |-> Users, song_names |-> SongNames,
     songs |-> {x \in SongInputs :
                  /\ x.artist = "a1" /\ x.title = "t1"
                  /\ x.song = "s1" \/ x.username = "u1"},
     reviews |-> {x \in ReviewInputs :
                    /\ x.artist = "a1" /\ x.title = "t1"
                    /\ x.score = 1 /\ x.review_text = "x"
                    /\ x.song_name = "s1" \/ x.username = "u1"},
     updates |-> {x \in ReviewUpdateInputs : x.score = 2 /\ x.review_text = "x"},
     ids |-> MaxId]

FrameSearchNext ==
    \/ \E response \in {r \in LastfmResponses :
                            \/ r.kind = "connect_error"
                            \/ r.kind = "ok" /\ r.shape = "dict" /\ r.track.listeners = "7"} :
           SearchLastfm(response)
    \/ \E response \in {r \in MbResponses : r.kind \in {"error", "ok"}} :
           MbRecording(response)
    \/ \E response \in {r \in HeadResponses : r.kind = "ok" /\ r.url = "i1"} :
           CoverHead(response)
    \/ SleepDone

FrameNext ==
    \/ Step(1, FrameInputs)
    \/ FrameSearchNext
    \/ Tick

FrameSpec == Init /\ [][FrameNext]_vars

\* =================================================================== claims
\* The handler of client c ends in this step.
Ends(c, op) == pc[c] # "done" /\ pc'[c] = "done" /\ resp'[c].op = op

\* The response client c holds, for handler op.
Answered(c, op) == pc[c] = "done" /\ resp[c].op = op

Pairs == Users \X SongNames

SongUnique == \A k \in Pairs : Cardinality(SongsOf(k[2], k[1])) <= 1

ReviewUnique == \A k \in Pairs : Cardinality(ReviewsOf(k[2], k[1])) <= 1

\* C1: with requests one after another, add(song) for a stored (song,
\* username) answers 400 and leaves the songs unchanged; for a pair not
\* stored it inserts exactly one record, of that pair, and answers with its
\* identifier; so no pair ever has two records.
C1_SequentialAdd ==
    /\ []SongUnique
    /\ [][\A c \in Clients :
            /\ pc'[c] = "add_song_insert" => collection' = collection
            /\ Ends(c, "add_song") =>
                 IF SongsOf(resp'[c].song_name, resp'[c].username) # {}
                   THEN resp'[c].status = 400 /\ collection' = collection
                   ELSE /\ resp'[c].status = 200
                        /\ \E d \in collection' \ collection :
                              /\ collection' = collection \cup {d}
                              /\ d.song = resp'[c].song_name
                              /\ d.username = resp'[c].username
                              /\ d._id = resp'[c].id]_vars

\* C1 witness: a second add of a stored pair was answered 400, one record.
C1_Witness ==
    \E c \in Clients :
        /\ Answered(c, "add_song") /\ resp[c].status = 400
        /\ Cardinality(SongsOf(resp[c].song_name, resp[c].username)) = 1

\* C2: in every reachable state, requests interleaving at their awaits, at
\* most one song record exists per (song, username).
C2_SongUniqueAlways ==
    \A u \in Users, s \in SongNames : Cardinality(SongsOf(s, u)) < 2

\* C3: after a successful deleteOne(username, songName) no review for
\* (songName, username) is stored.
C3_DeleteOneLeavesNoReview ==
    [][\A c \in Clients :
          (Ends(c, "delete_song_by_name") /\ resp'[c].status = 200) =>
              \A d \in reviews_collection' :
                  ~(d.song_name = resp'[c].song_name /\ d.username = resp'[c].username)]_vars

\* C4: with requests one after another, deleteAll(username) on N songs and M
\* reviews of the user leaves none of either and answers deleted_count = N,
\* the number of songs, also for N = 0.
C4_DeleteAll ==
    [][\A c \in Clients :
          /\ (pc[c] = "idle" /\ pc'[c] = "clear_reviews") =>
                /\ loc'[c].deleted_count = Cardinality(SongsOfUser(req'[c].username))
                /\ reviews_collection' = reviews_collection
          /\ Ends(c, "clear_all_user_songs") =>
                /\ resp'[c].status = 200
                /\ resp'[c].deleted_count = loc[c].deleted_count
                /\ \A d \in collection' : d.username # resp'[c].username
                /\ \A d \in reviews_collection' : d.username # resp'[c].username
                /\ collection' = collection]_vars

\* C4 witness: deleteAll answered deleted_count = 2, nothing of the user left.
C4_Witness ==
    \E c \in Clients :
        /\ Answered(c, "clear_all_user_songs") /\ resp[c].deleted_count = 2
        /\ SongsOfUser(resp[c].username) = {}
        /\ ReviewsOfUser(resp[c].username) = {}

\* C5: listByUser(username) returns every saved song of the user, and
\* has_review is true exactly for the songs the user has a stored review
\* for, with user_score and user_review of that review, whatever artist and
\* title the song and the review were given.
C5_ListByUser ==
    \A c \in Clients :
        Answered(c, "get_user_songs") =>
            LET u == resp[c].username
                out == resp[c].songs
            IN  /\ Len(out) = Cardinality(SongsOfUser(u))
                /\ \A d \in SongsOfUser(u) : \E i \in 1..Len(out) : out[i].song = d.song
                /\ \A i \in 1..Len(out) :
                      /\ out[i].has_review <=> ReviewsOf(out[i].song, u) # {}
                      /\ out[i].has_review =>
                            \E r \in ReviewsOf(out[i].song, u) :
                                /\ out[i].user_score = r.score
                                /\ out[i].user_review = r.review_text

\* C6: upsert(review) for a pair with no saved song answers 404 and leaves
\* the reviews unchanged.
C6_UpsertWithoutSong ==
    [][\A c \in Clients :
          /\ (pc[c] = "idle" /\ pc'[c] = "add_review_find") =>
                SongsOf(req'[c].song_name, req'[c].username) # {}
          /\ (pc[c] = "idle" /\ Ends(c, "add_review")) =>
                /\ SongsOf(resp'[c].song_name, resp'[c].username) = {}
                /\ resp'[c].status = 404
                /\ reviews_collection' = reviews_collection]_vars

\* C6 witness: an upsert for a pair with no song was answered 404.
C6_Witness ==
    \E c \in Clients :
        /\ Answered(c, "add_review") /\ resp[c].status = 404
        /\ SongsOf(resp[c].song_name, resp[c].username) = {}
        /\ collection # {}

\* C7: with requests one after another, an upsert leaves exactly one review
\* for its pair, with its score and text; if a review of the pair was
\* stored, it is replaced in place: same _id, as many documents as before.
C7_SequentialUpsert ==
    /\ []ReviewUnique
    /\ [][\A c \in Clients :
            (Ends(c, "add_review") /\ resp'[c].status = 200) =>
               LET old == ReviewsOf(req[c].song_name, req[c].username)
                   new == {d \in reviews_collection' :
                              d.song_name = req[c].song_name /\ d.username = req[c].username}
               IN  /\ Cardinality(new) = 1
                   /\ \A d \in new : /\ d.score = req[c].review.score
                                     /\ d.review_text = req[c].review.review_text
                   /\ reviews_collection' \ new = reviews_collection \ old
                   /\ IF old # {}
                        THEN /\ {d._id : d \in new} = {d._id : d \in old}
                             /\ Cardinality(reviews_collection') =
                                    Cardinality(reviews_collection)
                             /\ resp'[c].message = "updated"
                        ELSE /\ Cardinality(reviews_collection') =
                                    Cardinality(reviews_collection) + 1
                             /\ resp'[c].message = "added"]_vars

\* C7 witness: the second upsert of a pair was answered, one review stored,
\* with a score other than the first one's.
C7_Witness ==
    \E c \in Clients :
        /\ Answered(c, "add_review") /\ resp[c].status = 200
        /\ resp[c].message = "updated"
        /\ \E d \in ReviewsOf(resp[c].song_name, resp[c].username) :
              d.score = 2 /\ d.review_text = "y" /\ d._id = 2
        /\ Cardinality(reviews_collection) = 1

\* C8: in every reachable state, upserts interleaving at their awaits, at
\* most one review exists per (song_name, username).
C8_ReviewUniqueAlways ==
    \A u \in Users, s \in SongNames : Cardinality(ReviewsOf(s, u)) < 2

\* C9: whenever no request is in flight, every stored review has a saved
\* song with the same (song_name, username).
C9_NoOrphanAtRest ==
    (\A c \in Clients : pc[c] \in {"idle", "done"}) =>
        \A r \in reviews_collection : SongsOf(r.song_name, r.username) # {}

\* The tracks in the order the metadata service returned them.
Returned(data) ==
    IF data.kind # "ok" \/ data.shape = "none" THEN <<>>
    ELSE IF data.shape = "dict" THEN <<data.track>>
    ELSE data.tracks

\* C10: the search result lists the tracks in the order the metadata service
\* returned them, one record per track, none left out or moved; the
\* cover-art resolver is called once per track, in that order, and a call
\* starts only after the one before it has returned.
C10_SearchOrder ==
    LET returned == Returned(search.data)
        Same(out, track) ==
            /\ out.artist = Get(track.artist, "Unknown Artist")
            /\ out.title = Get(track.name, "Unknown Track")
            /\ out.listeners = Get(track.listeners, None)
            /\ out.url = Get(track.url, None)
    IN  /\ resolving \in {0, 1}
        /\ resolving = 1 <=> search.pc \in {"mb_recording", "cover_head"}
        /\ Len(mb_calls) <= Len(returned)
        /\ \A k \in 1..Len(mb_calls) :
              mb_calls[k] = <<Get(returned[k].artist, "Unknown Artist"),
                              Get(returned[k].name, "Unknown Track")>>
        /\ Len(mb_calls) = Len(search.tracks) + (IF search.pc \in {"idle", "done"} THEN 0 ELSE 1)
        /\ \A k \in 1..Len(search.tracks) : Same(search.tracks[k], returned[k])
        /\ (search.pc = "done" /\ search_resp.status = 200) =>
              /\ Len(search_resp.songs) = Len(returned)
              /\ Len(mb_calls) = Len(returned)
              /\ \A k \in 1..Len(returned) : Same(search_resp.songs[k], returned[k])

\* C10 witness: a search answered with three tracks, the first and the third
\* with the same artist and title, the second another one, three calls made.
C10_Witness ==
    /\ search.pc = "done" /\ search_resp.status = 200
    /\ Len(search_resp.songs) = 3 /\ Len(mb_calls) = 3
    /\ search_resp.songs[1].artist = search_resp.songs[3].artist
    /\ search_resp.songs[1].title = search_resp.songs[3].title
    /\ search_resp.songs[2].title # search_resp.songs[1].title
    /\ search_resp.songs[1].image # search_resp.songs[3].image

\* The image URLs the resolver can return.
Images == {None} \cup {r.url : r \in {h \in HeadResponses : h.kind = "ok"}}

\* C11: when Last.fm answers with a single track object the search returns a
\* list of exactly one track, the enriched form of that object; when it
\* answers with a list of k tracks the search returns k tracks.
C11_OneOrMany ==
    (search.pc = "done" /\ search.data.kind = "ok") =>
        /\ search_resp.status = 200
        /\ search.data.shape = "dict" =>
              /\ Len(search_resp.songs) = 1
              /\ \E image \in Images :
                    search_resp.songs[1] = TrackData(search.data.track, image)
        /\ search.data.shape = "list" =>
              Len(search_resp.songs) = Len(search.data.tracks)

C11_Witness ==
    /\ search.pc = "done" /\ search.data.kind = "ok"
    /\ search.data.shape = "dict"
    /\ search_resp.status = 200 /\ Len(search_resp.songs) = 1
    /\ search_resp.songs[1].image = "i1"

\* C12: a failure of the cover-art resolution at any step (the recording
\* search raises or answers a status other than 200, there is no recording,
\* release or release-group, the probe raises or answers a status other than
\* 200) does not propagate: the resolver returns None, the track of the
\* failed resolution is appended with image None, the tracks built before
\* keep their images, and a search whose Last.fm call succeeded ends with
\* 200 and one track per entry of the track list.
C12_ResolverFailureContained ==
    [][/\ (search.pc \in {"mb_recording", "cover_head"} /\ mb_answer' # mb_answer
            /\ mb_answer'.kind # "ok") =>
              /\ search'.pc = "sleep" /\ search'.image_url = None
              /\ search'.tracks = search.tracks
              /\ search_resp' = search_resp
       /\ (search.pc = "sleep" /\ search' # search) =>
              /\ Len(search'.tracks) = Len(search.tracks) + 1
              /\ SubSeq(search'.tracks, 1, Len(search.tracks)) = search.tracks
              /\ mb_answer.kind # "ok" => search'.tracks[Len(search'.tracks)].image = None
              /\ mb_answer.kind = "ok" =>
                    search'.tracks[Len(search'.tracks)].image = mb_answer.url
       /\ (search'.pc = "done" /\ search'.data.kind = "ok") =>
              /\ search_resp'.status = 200
              /\ search_resp'.songs = search'.tracks
              /\ Len(search_resp'.songs) = Len(search'.track_list)]_vars

C12_Witness ==
    /\ search.pc = "done" /\ search_resp.status = 200
    /\ Len(search_resp.songs) = 3
    /\ search_resp.songs[1].image = "i1"
    /\ search_resp.songs[2].image = None
    /\ search_resp.songs[3].image = "i2"

\* C13: a failed Last.fm call ends the search with an error, without a track
\* list and before any call of the resolver; the detail reported is
\* "Last.fm API error" when Last.fm answered a status other than 200 and
\* "Failed to connect to Last.fm API" when the connection failed.
C13_LastfmFailure ==
    (search.pc = "done" /\ search.data.kind \in {"non200", "connect_error"}) =>
        /\ search_resp.status = 500
        /\ "songs" \notin DOMAIN search_resp
        /\ mb_calls = <<>>
        /\ search.data.kind = "non200" => search_resp.detail = <<"Last.fm API error">>
        /\ search.data.kind = "connect_error" =>
              search_resp.detail = <<"Failed to connect to Last.fm API">>

\* Review documents d and e agree on every field but score, review_text and
\* updated_at.
SameButScoreTextUpdated(d, e) ==
    [e EXCEPT !.score = d.score, !.review_text = d.review_text,
              !.updated_at = d.updated_at] = d

\* C14: update_review answers 404 exactly when no review of (song_name,
\* username) is stored, also when the submitted score and text equal the
\* stored ones at the clock reading of the previous write; when a review
\* matches, only its score, review_text and updated_at change, and every
\* other review and every song stay as they are.
C14_UpdateNotFoundIffAbsent ==
    [][\A c \in Clients :
          Ends(c, "update_review") =>
              LET matching == ReviewsOf(resp'[c].song_name, resp'[c].username)
              IN  /\ resp'[c].status = 404 <=> matching = {}
                  /\ resp'[c].status \in {200, 404}
                  /\ collection' = collection
                  /\ reviews_collection \ matching = reviews_collection' \ matching
                  /\ \A e \in reviews_collection' \ reviews_collection :
                        \E d \in matching : SameButScoreTextUpdated(d, e)
                  /\ Cardinality(reviews_collection') = Cardinality(reviews_collection)]_vars

\* The clock reading an isoformat text stands for.
FromIso(text) == text[2]

\* C15: get_all_reviews returns every stored review exactly once, ordered by
\* created_at from newest to oldest; get_song_reviews returns exactly the
\* stored reviews of that song name, in the same order; neither changes a
\* stored record.
C15_Listings ==
    [][\A c \in Clients :
          (Ends(c, "get_all_reviews") \/ Ends(c, "get_song_reviews")) =>
              LET stored == IF resp'[c].op = "get_all_reviews"
                              THEN reviews_collection
                              ELSE ReviewsOfSong(resp'[c].song_name)
                  out == resp'[c].reviews
              IN  /\ resp'[c].status = 200
                  /\ Len(out) = Cardinality(stored)
                  /\ {out[i] : i \in 1..Len(out)} = {ReviewOut(d) : d \in stored}
                  /\ \A i, j \in 1..Len(out) :
                        i < j => FromIso(out[i].created_at) >= FromIso(out[j].created_at)
                  /\ collection' = collection
                  /\ reviews_collection' = reviews_collection]_vars

C15_Witness ==
    \E c \in Clients :
        /\ Answered(c, "get_song_reviews")
        /\ Len(resp[c].reviews) = 2
        /\ Cardinality(reviews_collection) = 2
        /\ resp[c].reviews[1].created_at = IsoFormat(1)
        /\ resp[c].reviews[2].created_at = IsoFormat(0)

\* C16: delete_song_by_name for a pair with no stored song answers 404 and
\* changes neither collection; a review stored for the pair (an orphan) is
\* not removed.
C16_DeleteOneWithoutSong ==
    [][\A c \in Clients :
          /\ (pc[c] = "idle" /\ pc'[c] # "idle" /\ req'[c].op = "delete_song_by_name") =>
                SongsOf(req'[c].song_name, req'[c].username) # {}
          /\ (pc[c] = "idle" /\ Ends(c, "delete_song_by_name")) =>
                /\ SongsOf(resp'[c].song_name, resp'[c].username) = {}
                /\ resp'[c].status = 404
                /\ collection' = collection
                /\ reviews_collection' = reviews_collection]_vars

C16_Witness ==
    \E c \in Clients :
        /\ Answered(c, "delete_song_by_name") /\ resp[c].status = 404
        /\ ReviewsOf(resp[c].song_name, resp[c].username) # {}

\* A delete on the reviews of d's pair or of d's user is still to come from
\* a handler that has deleted the songs.
CascadePending(d) ==
    \E c \in Clients :
        \/ /\ pc[c] = "delete_song_review"
           /\ req[c].song_name = d.song_name /\ req[c].username = d.username
        \/ pc[c] = "clear_reviews" /\ req[c].username = d.username

\* Review d has no song and no handler is about to delete it.
Orphan(d) ==
    /\ d \in reviews_collection
    /\ SongsOf(d.song_name, d.username) = {}
    /\ ~CascadePending(d)

Orphans == {d \in reviews_collection : Orphan(d)}

\* The two deletes are two steps, songs first; a handler that stops between
\* them leaves the reviews stored without their songs; an orphan leaves the
\* store only by delete_review for its pair (the second step of
\* clear_all_user_songs for its user removes it too, and is pending then),
\* and add_review for its pair answers 404.
OrphansStay ==
    \A c \in Clients :
        /\ (pc[c] = "idle" /\ pc'[c] \in {"delete_song_review", "clear_reviews"}) =>
              /\ reviews_collection' = reviews_collection
              /\ collection' = collection \ (IF pc'[c] = "clear_reviews"
                                               THEN SongsOfUser(req'[c].username)
                                               ELSE SongsOf(req'[c].song_name, req'[c].username))
              /\ collection' # collection \/ pc'[c] = "clear_reviews"
        /\ (pc[c] \in {"delete_song_review", "clear_reviews"} /\ pc'[c] = "done") =>
              collection' = collection
        /\ (pc[c] \in {"delete_song_review", "clear_reviews"} /\ pc'[c] = "idle") =>
              /\ collection' = collection /\ reviews_collection' = reviews_collection
              /\ \A d \in reviews_collection :
                    (d.username = req[c].username
                     /\ (pc[c] = "delete_song_review" => d.song_name = req[c].song_name)
                     /\ SongsOf(d.song_name, d.username) = {})
                        => d \in Orphans'
        /\ \A d \in Orphans :
              (\A e \in reviews_collection' : e._id # d._id) =>
                  \E k \in Clients :
                      /\ Ends(k, "delete_review") /\ resp'[k].status = 200
                      /\ resp'[k].song_name = d.song_name
                      /\ resp'[k].username = d.username
        /\ \A d \in Orphans :
              (pc[c] = "idle" /\ pc'[c] # "idle" /\ pc'[c] # "done"
               /\ req'[c].op = "add_review") =>
                  ~(req'[c].song_name = d.song_name /\ req'[c].username = d.username)

\* update_review for the pair of an orphan answers 200.
OrphanUpdateSucceeds ==
    \A c \in Clients :
        (Ends(c, "update_review")
         /\ \E d \in Orphans : d.song_name = resp'[c].song_name
                                /\ d.username = resp'[c].username)
            => resp'[c].status = 200

\* C17: delete_song_by_name and clear_all_user_songs delete the songs first
\* and the reviews second, in two steps; when the handler stops between the
\* steps the songs are gone and the reviews stay as orphans, until a
\* delete_review or a clear_all_user_songs of that user removes them;
\* add_review for an orphan's pair answers 404 and update_review for it
\* answers 200.
C17_OrphansAfterStop == [][OrphansStay /\ OrphanUpdateSucceeds]_vars

\* The _ids of the reviews in the orders get_all_reviews can return them.
ListAllOrders(S) ==
    {[i \in 1..Len(f) |-> f[i]._id] : f \in SortedByCreatedDesc(S)}

\* add_review of client c replaces a review in this step.
Replaces(c) ==
    /\ pc[c] = "add_review_write" /\ Ends(c, "add_review")
    /\ loc[c].existing # 0

\* The replacement writes the created_at the handler has read from the
\* clock, which is not later than the clock's reading after the step.
ReplacementStampsCreatedAt(c) ==
    \A e \in reviews_collection' :
        e._id = loc[c].existing =>
            e.created_at = loc[c].created_at /\ e.created_at <= now'

\* update_review leaves every created_at and the orders of get_all_reviews
\* as they are.
UpdateKeepsCreatedAt(c) ==
    Ends(c, "update_review") =>
        /\ \A d \in reviews_collection :
              \E e \in reviews_collection' :
                  e._id = d._id /\ e.created_at = d.created_at
        /\ ListAllOrders(reviews_collection') = ListAllOrders(reviews_collection)

Stepping(c) ==
    IF pc'[c] = "done" THEN resp'[c] ELSE req'[c]

Acts(c) == (pc'[c] # pc[c] \/ loc'[c] # loc[c]) /\ Stepping(c).op # "none"

OfOthers(S, username) == {d \in S : d.username # username}

\* C18: a step of a handler called for username u leaves the songs and the
\* reviews of every other user as they are; the steps of get_user_songs,
\* get_all_reviews, get_song_reviews and search_songs leave both collections
\* as they are.
C18_Frame ==
    [][/\ \A c \in Clients :
             Acts(c) =>
                 /\ Stepping(c).op \in {"add_song", "delete_song_by_name",
                                        "clear_all_user_songs", "add_review",
                                        "update_review", "delete_review"} =>
                       /\ OfOthers(collection', Stepping(c).username)
                            = OfOthers(collection, Stepping(c).username)
                       /\ OfOthers(reviews_collection', Stepping(c).username)
                            = OfOthers(reviews_collection, Stepping(c).username)
                 /\ Stepping(c).op \in {"get_user_songs", "get_all_reviews",
                                        "get_song_reviews"} =>
                       /\ collection' = collection
                       /\ reviews_collection' = reviews_collection
       /\ (search' # search \/ search_resp' # search_resp) =>
             /\ collection' = collection
             /\ reviews_collection' = reviews_collection]_vars

C18_Witness ==
    \E c \in Clients :
        /\ Answered(c, "clear_all_user_songs") /\ resp[c].username = "u1"
        /\ resp[c].deleted_count = 1
        /\ \E d \in collection : d.username = "u2"
        /\ \E d \in reviews_collection : d.username = "u2"
        /\ search.pc = "done" /\ search_resp.status = 200
====
